---- MODULE Spec2Model ----
(***************************************************************************)
(* Model of fixhub's scan pipeline: Client.Check resolves a revision,      *)
(* lists the tree, spawns one goroutine per eligible entry, each of which  *)
(* fetches its blob under the sem channel, runs gofmt, lint and vet over   *)
(* it and appends Problems to a mutex-guarded list; Check waits for the    *)
(* WaitGroup, sorts the list with Problems.Less and returns it.            *)
(*                                                                         *)
(* Strings that the code compares or inspects (File, Text, paths) are      *)
(* sequences of byte values; strings that are only copied (Type, SHA1,     *)
(* error messages) are TLA+ strings.                                       *)
(***************************************************************************)
EXTENDS Integers, Sequences, FiniteSets, TLC

(* ------------------------------ bounds -------------------------------- *)
\* Largest number of entries in the tree listing.
MaxFiles == 3
\* Largest FetchParallelism the model runs a scan with.
MaxPar == 2

(* ------------------------- program constants -------------------------- *)
sizeLimit == 1048576
\* p.Confidence < 0.8 in tenths: 0.8 is 8.
minConfidence == 8

Gofmt == "gofmt"
NoType == ""

(* ------------------------------ strings ------------------------------- *)
\* Go's < on strings: bytewise lexicographic order.
RECURSIVE StrLess(_, _)
StrLess(a, b) ==
    IF b = <<>> THEN FALSE
    ELSE IF a = <<>> THEN TRUE
    ELSE IF a[1] # b[1] THEN a[1] < b[1]
    ELSE StrLess(Tail(a), Tail(b))

\* strings.HasSuffix
HasSuffix(s, suffix) ==
    /\ Len(s) >= Len(suffix)
    /\ SubSeq(s, Len(s) - Len(suffix) + 1, Len(s)) = suffix

DotGo == <<46, 103, 111>>                     \* ".go"
DotPbGo == <<46, 112, 98, 46, 103, 111>>      \* ".pb.go"
\* "This file needs formatting with gofmt."
GofmtText ==
    <<84, 104, 105, 115, 32, 102, 105, 108, 101, 32, 110, 101, 101, 100, 115,
      32, 102, 111, 114, 109, 97, 116, 116, 105, 110, 103, 32, 119, 105, 116,
      104, 32, 103, 111, 102, 109, 116, 46>>

(* ------------------------------ Problem ------------------------------- *)
Problem(type, file, sha1, line, text, fixable) ==
    [Type |-> type, File |-> file, SHA1 |-> sha1, Line |-> line,
     Text |-> text, Fixable |-> fixable]

\* Problems.Less without its comparison of Line.
LessIgnoringLine(p, q) ==
    IF p.File # q.File THEN StrLess(p.File, q.File)
    ELSE StrLess(p.Text, q.Text)

\* Problems.Less(i, j) on the elements p = ps[i], q = ps[j].
Less(p, q) ==
    IF p.File # q.File THEN StrLess(p.File, q.File)
    ELSE IF p.Line # q.Line THEN p.Line < q.Line
    ELSE StrLess(p.Text, q.Text)

\* All ways of putting p into the sequence s that leave no element after a
\* greater one.
Insertions(s, p) ==
    { SubSeq(s, 1, k) \o <<p>> \o SubSeq(s, k + 1, Len(s)) :
        k \in { k \in 0..Len(s) :
                  /\ \A j \in 1..k : ~Less(p, s[j])
                  /\ \A j \in (k + 1)..Len(s) : ~Less(s[j], p) } }

\* A Check that returns problems.list as the tasks left it.
SortSkipped(ps) == { ps }

\* sort.Sort(Problems(list)): the sort is not guaranteed to be stable and its
\* algorithm differs between Go releases, so elements that Less does not
\* separate may come out in any order. The outcomes are the permutations of
\* the list in which no element is Less than its predecessor.
RECURSIVE SortOutcomes(_)
SortOutcomes(ps) ==
    IF ps = <<>> THEN { <<>> }
    ELSE UNION { Insertions(s, Head(ps)) : s \in SortOutcomes(Tail(ps)) }

(* ----------------------- upstream repository -------------------------- *)
\* A github.TreeEntry: Path, SHA and Size are pointers, modelled as sequences:
\* <<>> is nil and <<v>> points at v.
TreeEntry(path, sha, size) == [Path |-> path, SHA |-> sha, Size |-> size]

\* The entries the remote host may list, in path order: three Go files (one
\* of exactly sizeLimit bytes), an oversized Go file, a generated file and a
\* directory (which has no size).
Upstream ==
    << TreeEntry(<< <<97, 46, 103, 111>> >>, <<"sha-a">>, <<120>>),            \* a.go
       TreeEntry(<< <<98, 46, 103, 111>> >>, <<"sha-b">>, <<sizeLimit>>),      \* b.go
       TreeEntry(<< <<98, 105, 103, 46, 103, 111>> >>, <<"sha-big">>,
                 <<sizeLimit + 1>>),                                           \* big.go
       TreeEntry(<< <<99, 46, 103, 111>> >>, <<"sha-c">>, <<40>>),             \* c.go
       TreeEntry(<< <<100, 46, 112, 98, 46, 103, 111>> >>, <<"sha-d">>, <<40>>), \* d.pb.go
       TreeEntry(<< <<100, 105, 114>> >>, <<"sha-dir">>, <<>>) >>              \* dir

RECURSIVE SetToSeq(_)
SetToSeq(S) ==
    IF S = {} THEN <<>>
    ELSE LET m == CHOOSE x \in S : \A y \in S : x <= y
         IN <<Upstream[m]>> \o SetToSeq(S \ {m})

\* The tree listings: every selection of at most MaxFiles upstream entries.
Trees ==
    { SetToSeq(S) : S \in { T \in SUBSET (1..Len(Upstream)) : Cardinality(T) <= MaxFiles } }

\* Analyzer messages.
TextDoc == <<100, 111, 99>>            \* "doc"
TextVet == <<118, 101, 116>>           \* "vet"
TextSyn == <<115, 121, 110>>           \* "syn"

\* What the analyzers return for a file's bytes.  fmt.err is the dynamic type
\* of format.Source's error ("none" when it succeeds, giving fmt.out);
\* lintErr is linter.Lint's error; vet is the vet binary's parsed output.
Content(src, ferr, errs, out, lintErr, lint, vetout) ==
    [src |-> src,
     fmt |-> [err |-> ferr, errs |-> errs, out |-> out],
     lintErr |-> lintErr, lint |-> lint, vet |-> vetout]

ScanErr(line, msg) == [Line |-> line, Msg |-> msg]
LintIssue(line, text, conf) == [Line |-> line, Text |-> text, Confidence |-> conf]
VetIssue(line, text) == [Line |-> line, Text |-> text]

\* gofmt-clean, nothing reported.
Clean == Content(<<120>>, "none", <<>>, <<120>>, FALSE, <<>>, <<>>)
\* needs gofmt; lint fails; vet reports at line 0 with gofmt's own text.
Untidy ==
    Content(<<120, 32>>, "none", <<>>, <<120>>, TRUE,
            <<LintIssue(1, TextDoc, 9)>>, <<VetIssue(0, GofmtText)>>)
\* gofmt-clean; lint reports at confidence 0.8 and 0.7; vet reports.
Lintful ==
    Content(<<121>>, "none", <<>>, <<121>>, FALSE,
            <<LintIssue(2, TextDoc, 8), LintIssue(1, TextDoc, 7)>>,
            <<VetIssue(1, TextVet)>>)
\* does not parse: a scanner.ErrorList of two errors.
Broken ==
    Content(<<122>>, "list", <<ScanErr(1, TextSyn), ScanErr(3, TextSyn)>>, <<>>,
            FALSE, <<LintIssue(1, TextDoc, 9)>>, <<VetIssue(1, TextVet)>>)
\* does not parse: a single *scanner.Error.
BrokenOnce ==
    Content(<<122, 122>>, "single", <<ScanErr(2, TextSyn)>>, <<>>,
            FALSE, <<>>, <<VetIssue(2, TextVet)>>)
\* format.Source fails with an error of another type (errs holds its text).
Unprintable ==
    Content(<<119>>, "other", <<ScanErr(0, TextSyn)>>, <<>>,
            FALSE, <<LintIssue(1, TextDoc, 9)>>, <<>>)

\* The nil src GetBlob returns with an error: no bytes, which do not parse.
NilSrc == Content(<<>>, "list", <<ScanErr(1, TextSyn)>>, <<>>, FALSE, <<>>, <<>>)

\* The file contents a blob may turn out to hold, by name.
Contents == {"Clean", "Untidy", "Lintful", "Broken", "BrokenOnce", "Unprintable"}

\* The content a name stands for; "nil" is the src of a failed GetBlob.
ContentOf(name) ==
    CASE name = "Clean" -> Clean
      [] name = "Untidy" -> Untidy
      [] name = "Lintful" -> Lintful
      [] name = "Broken" -> Broken
      [] name = "BrokenOnce" -> BrokenOnce
      [] name = "Unprintable" -> Unprintable
      [] OTHER -> NilSrc

\* The blob store: the contents the blob of each id may turn out to hold.
\* a.go and b.go may be clean; a.go and c.go may fail to parse.
BlobContents(sha1) ==
    CASE sha1 = "sha-a" -> {"Clean", "Untidy", "Broken"}
      [] sha1 = "sha-b" -> {"Clean", "Untidy", "Lintful"}
      [] sha1 = "sha-c" -> {"Broken", "BrokenOnce", "Unprintable"}
      [] OTHER -> Contents

(* --------------------------- per-file analysis ------------------------ *)
\* addScannerError
ScannerProblem(path, e) == Problem(NoType, path, "", e.Line, e.Msg, FALSE)

\* The switch on format.Source's error.
FormatErrProblems(path, c) ==
    CASE c.fmt.err = "list" ->
           [i \in 1..Len(c.fmt.errs) |-> ScannerProblem(path, c.fmt.errs[i])]
      [] c.fmt.err = "single" -> <<ScannerProblem(path, c.fmt.errs[1])>>
      [] OTHER -> <<Problem(NoType, path, "", 0, c.fmt.errs[1].Msg, FALSE)>>

\* The gofmt check with the comparison inverted.
GofmtProblemsInverted(path, sha1, c) ==
    IF c.src = c.fmt.out
    THEN <<Problem(Gofmt, path, sha1, 0, GofmtText, TRUE)>>
    ELSE <<>>

\* The gofmt check building its Problem without the SHA1 field.
GofmtProblemsNoSHA(path, sha1, c) ==
    IF c.src # c.fmt.out
    THEN <<Problem(Gofmt, path, "", 0, GofmtText, TRUE)>>
    ELSE <<>>

\* if !bytes.Equal(src, formatted) { addProblem(...) }
GofmtProblems(path, sha1, c) ==
    IF c.src # c.fmt.out
    THEN <<Problem(Gofmt, path, sha1, 0, GofmtText, TRUE)>>
    ELSE <<>>

\* The linter.Lint block.
LintProblems(path, c) ==
    IF c.lintErr THEN <<>>
    ELSE LET kept == SelectSeq(c.lint, LAMBDA l : ~(l.Confidence < minConfidence))
         IN [i \in 1..Len(kept) |-> Problem(NoType, path, "", kept[i].Line, kept[i].Text, FALSE)]

\* Client.vet and the loop over its result: with no vet binary the command
\* cannot run and vet returns an error.
VetProblems(vet, path, c) ==
    IF vet = "" THEN <<>>
    ELSE [i \in 1..Len(c.vet) |-> Problem(NoType, path, "", c.vet[i].Line, c.vet[i].Text, FALSE)]

\* The analysis without the return that follows the syntax errors.
AnalyzeNoEarlyReturn(vet, path, sha1, c) ==
    (IF c.fmt.err # "none" THEN FormatErrProblems(path, c)
     ELSE GofmtProblems(path, sha1, c))
    \o LintProblems(path, c) \o VetProblems(vet, path, c)

\* The goroutine's body after a successful GetBlob: the Problems it adds, in
\* the order it adds them.
Analyze(vet, path, sha1, c) ==
    IF c.fmt.err # "none"
    THEN FormatErrProblems(path, c)    \* return: no more to do
    ELSE GofmtProblems(path, sha1, c) \o LintProblems(path, c) \o VetProblems(vet, path, c)

\* The calls of c.vet(vet, path, src) the goroutine's body makes: one, unless
\* it returns before, on a GetBlob error or on format.Source's error. The
\* call does not depend on vet being "".
VetCalls(err, c) == IF err \/ c.fmt.err # "none" THEN 0 ELSE 1

\* The goroutine's body without the return on a GetBlob error.
AfterFetchNoReturn(vet, path, sha1, err, c) == Analyze(vet, path, sha1, c)

\* The goroutine's body after GetBlob returned: a fetch error ends the task.
AfterFetch(vet, path, sha1, err, c) ==
    IF err THEN <<>> ELSE Analyze(vet, path, sha1, c)

\* An entry filter that skips a file of exactly sizeLimit bytes.
EligibleBelowLimit(ent) ==
    /\ ent.SHA # <<>> /\ ent.Path # <<>> /\ ent.Size # <<>>
    /\ HasSuffix(ent.Path[1], DotGo)
    /\ ~HasSuffix(ent.Path[1], DotPbGo)
    /\ ent.Size[1] < sizeLimit

\* The entry filter of the spawn loop.
Eligible(ent) ==
    /\ ent.SHA # <<>> /\ ent.Path # <<>> /\ ent.Size # <<>>
    /\ HasSuffix(ent.Path[1], DotGo)
    /\ ~HasSuffix(ent.Path[1], DotPbGo)
    /\ ~(ent.Size[1] > sizeLimit)

(* ------------------------------- state -------------------------------- *)
VARIABLES
    fp,     \* c.FetchParallelism, the capacity of sem
    tree,   \* tree.Entries as the remote host lists them
    truncated, \* the host cut the listing short (the response's "truncated")
    pc,     \* where Check is: "resolve", "tree", "vet", "loop", "done", "failed"
    vet,    \* the vet binary Check found, "" when there is none
    idx,    \* the spawn loop's position in tree.Entries
    wg,     \* the WaitGroup's counter
    sem,    \* number of values in the sem channel's buffer
    mu,     \* the task holding problems.Mutex, 0 when it is unlocked
    list,   \* problems.list
    task,   \* the goroutine of each tree entry
    ret     \* what Check returned: the Problems and the error ("" is nil)

\* The state of the fixhubd server, which the scan leaves alone.
VARIABLES
    datastore,  \* the store behind the datastore variable: its data and timeout maps
    clock,      \* iterations of cleanup's loop so far; each sleeps sweepSeconds
    born,       \* history: for each key Put has returned, the clock at the latest such Put
    last,       \* history: the latest call of a store method, its result, the store before it
    plan,       \* a call of Client.Fix: its argument, its result, its GetBlob calls
    run,        \* the fix handler's run for each authorization callback
    github      \* the remote host: the forks, the branches and the files on them

scanVars == <<fp, tree, truncated, pc, vet, idx, wg, sem, mu, list, task, ret>>
serverVars == <<datastore, clock, born, last, plan, run, github>>
vars == <<fp, tree, truncated, pc, vet, idx, wg, sem, mu, list, task, ret,
          datastore, clock, born, last, plan, run, github>>

\* A goroutine: pc is "none" (not spawned), "sem" (at sem <- 1), "blob" (in
\* GetBlob), "run" (analysing, between addProblem calls), "locked" (inside
\* addProblem, holding the mutex) or "done" (returned, wg.Done called).
\* fetched is <<>> until GetBlob returns and then <<err>>; src names the
\* content it returned; todo is the Problems the task has still to add; tmp is the
\* slice header addProblem read from problems.list; vetCalls counts the task's
\* calls of c.vet, each of which writes the source to a scratch file and
\* runs the vet command on it.
NoTask == [pc |-> "none", fetched |-> <<>>, src |-> "nil", todo |-> <<>>, tmp |-> <<>>,
           vetCalls |-> 0]

Tasks == 1..Len(tree)

\* The server before any request: an empty store (datastore.go's var
\* datastore), and no handler running.
ServerIdle ==
    /\ datastore = [data |-> <<>>, timeout |-> <<>>]
    /\ clock = 0
    /\ born = <<>>
    /\ last = <<>>
    /\ plan = <<>>
    /\ run = <<>>
    /\ github = <<>>

Init ==
    /\ fp \in 0..MaxPar
    /\ tree \in Trees
    /\ truncated = FALSE
    /\ pc = "resolve"
    /\ vet = ""
    /\ idx = 1
    /\ wg = 0
    /\ sem = 0
    /\ mu = 0
    /\ list = <<>>
    /\ task = [w \in 1..Len(tree) |-> NoTask]
    /\ ret = [ps |-> <<>>, err |-> ""]
    /\ ServerIdle

(* ------------------------------- Check -------------------------------- *)
\* The rev Check is called with, and the commit id ResolveRef finds for it.
Rev == "master"
CommitSHA == "sha-commit"

\* The errors of the remote host's calls, by their text.
Causes == {"404 Not Found", "connection reset"}

\* A Check that returns the error of ResolveRef as it got it.
ErrResolvingBare(rev, cause) == cause

\* fmt.Errorf("resolving %q: %v", rev, err)
ErrResolving(rev, cause) == "resolving \"" \o rev \o "\": " \o cause

\* fmt.Errorf("fetching tree %q (%s): %v", rev, ref, err)
ErrFetchingTree(rev, ref, cause) ==
    "fetching tree \"" \o rev \o "\" (" \o ref \o "): " \o cause

\* c.ResolveRef(rev) and the error return after it.
ResolveRef ==
    /\ pc = "resolve"
    /\ \/ /\ pc' = "tree"
          /\ ret' = ret
       \/ \E cause \in Causes :
            /\ pc' = "failed"
            /\ ret' = [ps |-> <<>>, err |-> ErrResolving(Rev, cause)]
    /\ UNCHANGED <<fp, tree, truncated, vet, idx, wg, sem, mu, list, task>>
    /\ UNCHANGED serverVars

\* c.GetTree(ref) and the error return after it. GetTree asks for the
\* recursive listing and returns the host's answer as it is: the listing
\* may be one the host has cut short.
GetTree ==
    /\ pc = "tree"
    /\ \/ /\ pc' = "vet"
          /\ ret' = ret
          /\ truncated' \in BOOLEAN
       \/ \E cause \in Causes :
            /\ pc' = "failed"
            /\ ret' = [ps |-> <<>>, err |-> ErrFetchingTree(Rev, CommitSHA, cause)]
            /\ truncated' = truncated
    /\ UNCHANGED <<fp, tree, vet, idx, wg, sem, mu, list, task>>
    /\ UNCHANGED serverVars

\* "Look for vet": c.VetBinary, else the binary under GOROOT if it is there.
LookForVet ==
    /\ pc = "vet"
    /\ \E found \in BOOLEAN : vet' = IF found THEN "vet" ELSE ""
    /\ pc' = "loop"
    /\ UNCHANGED <<fp, tree, truncated, idx, wg, sem, mu, list, task, ret>>
    /\ UNCHANGED serverVars

\* One iteration of the loop over tree.Entries: skip the entry, or wg.Add(1)
\* and start its goroutine.
Spawn ==
    /\ pc = "loop"
    /\ idx <= Len(tree)
    /\ idx' = idx + 1
    /\ IF Eligible(tree[idx])
       THEN /\ wg' = wg + 1
            /\ task' = [task EXCEPT ![idx].pc = "sem"]
       ELSE UNCHANGED <<wg, task>>
    /\ UNCHANGED <<fp, tree, truncated, pc, vet, sem, mu, list, ret>>
    /\ UNCHANGED serverVars

\* A sem channel made one slot too large.
SemHasRoomOffByOne == sem <= fp

\* sem <- 1 can proceed: the channel's buffer has room.
SemHasRoom == sem < fp

\* A path on which <-sem is forgotten.
SemReceiveSkipped(n) == n

\* <-sem: one value leaves the channel's buffer.
SemReceive(n) == n - 1

\* sem <- 1, then the call of c.GetBlob(sha1).
Acquire(w) ==
    /\ task[w].pc = "sem"
    /\ SemHasRoom
    /\ sem' = sem + 1
    /\ task' = [task EXCEPT ![w].pc = "blob"]
    /\ UNCHANGED <<fp, tree, truncated, pc, vet, idx, wg, mu, list, ret>>
    /\ UNCHANGED serverVars

\* GetBlob returns src or an error; <-sem; then the analysis of src up to the
\* first addProblem, or to the task's return when there is nothing to add.
FetchDone(w) ==
    /\ task[w].pc = "blob"
    /\ \E err \in BOOLEAN :
       \E c \in (IF err THEN {"nil"} ELSE BlobContents(tree[w].SHA[1])) :
         LET todo == AfterFetch(vet, tree[w].Path[1], tree[w].SHA[1], err, ContentOf(c))
         IN /\ task' = [task EXCEPT ![w] =
                          [pc |-> IF todo = <<>> THEN "done" ELSE "run",
                           fetched |-> <<err>>, src |-> c, todo |-> todo, tmp |-> <<>>,
                           vetCalls |-> VetCalls(err, ContentOf(c))]]
            /\ wg' = IF todo = <<>> THEN wg - 1 ELSE wg
    /\ sem' = SemReceive(sem)
    /\ UNCHANGED <<fp, tree, truncated, pc, vet, idx, mu, list, ret>>
    /\ UNCHANGED serverVars

\* addProblem without the lock.
MutexIgnored == TRUE

\* problems.Lock() can proceed: the mutex is unlocked.
MutexFree == mu = 0

\* addProblem, first half: problems.Lock() and the read of problems.list
\* that append starts with.
Lock(w) ==
    /\ task[w].pc = "run"
    /\ MutexFree
    /\ mu' = w
    /\ task' = [task EXCEPT ![w].pc = "locked", ![w].tmp = list]
    /\ UNCHANGED <<fp, tree, truncated, pc, vet, idx, wg, sem, list, ret>>
    /\ UNCHANGED serverVars

\* addProblem, second half: the store of the appended slice and
\* problems.Unlock(); after the task's last Problem, its return and wg.Done().
AppendUnlock(w) ==
    /\ task[w].pc = "locked"
    /\ list' = Append(task[w].tmp, Head(task[w].todo))
    /\ mu' = 0
    /\ LET rest == Tail(task[w].todo)
       IN /\ task' = [task EXCEPT ![w].pc = IF rest = <<>> THEN "done" ELSE "run",
                                  ![w].todo = rest, ![w].tmp = <<>>]
          /\ wg' = IF rest = <<>> THEN wg - 1 ELSE wg
    /\ UNCHANGED <<fp, tree, truncated, pc, vet, idx, sem, ret>>
    /\ UNCHANGED serverVars

\* Check without the wg.Wait() call.
WaitSkipped == TRUE

\* wg.Wait() can return: the counter is zero.
WaitDone == wg = 0

\* After the loop: wg.Wait(), sort.Sort(Problems(problems.list)) in place,
\* and the return of the list with a nil error.
WaitSortReturn ==
    /\ pc = "loop"
    /\ idx > Len(tree)
    /\ WaitDone
    /\ \E sorted \in SortOutcomes(list) :
         /\ list' = sorted
         /\ ret' = [ps |-> sorted, err |-> ""]
    /\ pc' = "done"
    /\ UNCHANGED <<fp, tree, truncated, vet, idx, wg, sem, mu, task>>
    /\ UNCHANGED serverVars

Next ==
    \/ ResolveRef
    \/ GetTree
    \/ LookForVet
    \/ Spawn
    \/ \E w \in Tasks : Acquire(w)
    \/ \E w \in Tasks : FetchDone(w)
    \/ \E w \in Tasks : Lock(w)
    \/ \E w \in Tasks : AppendUnlock(w)
    \/ WaitSortReturn

Spec == Init /\ [][Next]_vars

(* --------------------------- vocabulary of the claims ------------------ *)
Range(q) == { q[i] : i \in 1..Len(q) }
Count(q, x) == Cardinality({ i \in 1..Len(q) : q[i] = x })
\* The two sequences hold the same elements the same number of times.
SameBag(q, r) ==
    /\ Len(q) = Len(r)
    /\ \A x \in Range(q) \cup Range(r) : Count(q, x) = Count(r, x)

PathOf(w) == tree[w].Path[1]
ShaOf(w) == tree[w].SHA[1]
FetchedOK(w) == task[w].fetched = <<FALSE>>
FetchFailed(w) == task[w].fetched = <<TRUE>>
\* The content task w fetched.
Src(w) == ContentOf(task[w].src)
\* The findings of ps that are about one file.
FileFindings(ps, path) == SelectSeq(ps, LAMBDA p : p.File = path)

\* What task w has produced: nothing until its fetch returns.
Produced(w) ==
    IF task[w].fetched = <<>> THEN <<>>
    ELSE AfterFetch(vet, PathOf(w), ShaOf(w), task[w].fetched[1], Src(w))

RECURSIVE ConcatTasks(_, _)
ConcatTasks(F(_), n) == IF n = 0 THEN <<>> ELSE ConcatTasks(F, n - 1) \o F(n)
AllProduced == ConcatTasks(Produced, Len(tree))
Pending(w) == task[w].todo
AllPending == ConcatTasks(Pending, Len(tree))

Fetching == { w \in Tasks : task[w].pc = "blob" }
InFlight == { w \in Tasks : task[w].pc \in {"blob", "run", "locked"} }

\* The order of the spec's sort key: File, then Line, then Text, ascending.
KeyBefore(p, q) ==
    \/ StrLess(p.File, q.File)
    \/ p.File = q.File /\ p.Line < q.Line
    \/ p.File = q.File /\ p.Line = q.Line /\ StrLess(p.Text, q.Text)

(* ------------------------------- claims -------------------------------- *)
\* C1: the sequence Check returns is in non-decreasing order of (File, Line,
\* Text): no element comes before one that is smaller in that order, and so
\* the first element is a minimum.
C1_ResultSorted ==
    pc = "done" =>
        /\ \A i \in 1..(Len(ret.ps) - 1) : ~KeyBefore(ret.ps[i + 1], ret.ps[i])
        /\ \A i \in 1..Len(ret.ps) : ~KeyBefore(ret.ps[i], ret.ps[1])

\* C1 witness: Check returned findings of three files, two of them of one file
\* at different lines.
C1_Witness ==
    /\ pc = "done"
    /\ Cardinality({ p.File : p \in Range(ret.ps) }) = 3
    /\ \E i, j \in 1..Len(ret.ps) :
         ret.ps[i].File = ret.ps[j].File /\ ret.ps[i].Line < ret.ps[j].Line

C3_NoLostNoDuplicate ==
    /\ SameBag(list \o AllPending, AllProduced)
    /\ pc = "done" => SameBag(ret.ps, AllProduced)

\* C3 witness: Check returned the findings of three tasks that each added two.
C3_Witness ==
    /\ pc = "done"
    /\ Len(ret.ps) = 6
    /\ \A w \in Tasks : Len(Produced(w)) = 2

\* C4: with FetchParallelism >= 1, at most FetchParallelism tasks are inside
\* a blob fetch.
C4_FetchBound == fp >= 1 => Cardinality(Fetching) <= fp

\* C4 witness: the gate is full and a further task waits at it.
C4_Witness ==
    /\ fp >= 1
    /\ Cardinality(Fetching) = fp
    /\ \E w \in Tasks : task[w].pc = "sem"

\* C5 (as claimed): at most FetchParallelism tasks are anywhere between the
\* start of their fetch and the end of their analysis.
C5_InFlightBound == fp >= 1 => Cardinality(InFlight) <= fp

\* C5 (amended): the gate bounds the fetches only: at most FetchParallelism
\* slots are taken, and they are taken by exactly the tasks inside a fetch; a
\* task that is analysing holds no slot.
C5_SlotsHeldByFetchesOnly ==
    /\ sem <= fp
    /\ sem = Cardinality(Fetching)

\* C5 witness: more tasks in flight than FetchParallelism, the gate full.
C5_Witness ==
    /\ fp >= 1
    /\ sem = fp
    /\ Cardinality(InFlight) > fp

\* C6: once Check has returned, every task it spawned has finished, nobody is
\* inside addProblem, and the list is the one returned: nothing was added
\* after the return.
C6_JoinBarrier ==
    pc = "done" =>
        /\ \A w \in Tasks : task[w].pc \in {"none", "done"}
        /\ mu = 0
        /\ wg = 0
        /\ list = ret.ps

\* C6 witness: Check returned after a task that dropped its file, a task that
\* stopped on syntax errors and a task that ran the whole pipeline.
C6_Witness ==
    /\ pc = "done"
    /\ \E w \in Tasks : FetchFailed(w)
    /\ \E w \in Tasks : FetchedOK(w) /\ Src(w).fmt.err = "list"
    /\ \E w \in Tasks : FetchedOK(w) /\ Src(w).fmt.err = "none"
                          /\ Produced(w) # <<>>

\* C7: a task whose fetch failed has finished and no finding about its file
\* is ever recorded; Check returns a nil error and, for every other file,
\* exactly the findings that file's own task produced.
C7_FetchFailureDropsOnlyThatFile ==
    \A w \in Tasks : FetchFailed(w) =>
        /\ task[w].pc = "done"
        /\ FileFindings(list, PathOf(w)) = <<>>
        /\ pc # "failed"
        /\ pc = "done" =>
             /\ ret.err = ""
             /\ \A v \in Tasks \ {w} :
                  SameBag(FileFindings(ret.ps, PathOf(v)), Produced(v))

\* C7 witness: Check returned findings although a fetch had failed.
C7_Witness ==
    /\ pc = "done"
    /\ \E w \in Tasks : FetchFailed(w)
    /\ \E v \in Tasks : FetchedOK(v) /\ Len(FileFindings(ret.ps, PathOf(v))) = 2

\* The finding the claim expects for one syntax error location.
SyntaxFinding(path, e) ==
    [Type |-> "", File |-> path, SHA1 |-> "", Line |-> e.Line, Text |-> e.Msg,
     Fixable |-> FALSE]

\* C8: for a file that fails to parse, only findings of its syntax error
\* locations are ever recorded, and Check returns exactly one per location,
\* with that location's line and Fixable false.
C8_SyntaxErrorsOnly ==
    \A w \in Tasks :
        (FetchedOK(w) /\ Src(w).fmt.err \in {"list", "single"}) =>
            LET errs == Src(w).fmt.errs
                want == [i \in 1..Len(errs) |-> SyntaxFinding(PathOf(w), errs[i])]
            IN /\ Range(FileFindings(list, PathOf(w))) \subseteq Range(want)
               /\ pc = "done" => SameBag(FileFindings(ret.ps, PathOf(w)), want)

\* C8 witness: Check returned with vet available and a file with two syntax
\* error locations, for which lint and vet would have had something to report.
C8_Witness ==
    /\ pc = "done"
    /\ vet # ""
    /\ \E w \in Tasks :
         /\ FetchedOK(w)
         /\ Src(w).fmt.err = "list"
         /\ Len(Src(w).fmt.errs) = 2
         /\ Src(w).vet # <<>> /\ Src(w).lint # <<>>
         /\ Len(FileFindings(ret.ps, PathOf(w))) = 2

\* The Format findings of ps about one file.
FormatFindings(ps, path) ==
    SelectSeq(ps, LAMBDA p : p.File = path /\ p.Type = Gofmt)

\* C9: for a fetched file that parses, Check returns no Format finding when
\* the reformatted bytes equal the original ones, and otherwise exactly one,
\* with Fixable true, Line 0 and the SHA1 of the file's tree entry.
C9_FormatFinding ==
    pc = "done" =>
        \A w \in Tasks : (FetchedOK(w) /\ Src(w).fmt.err = "none") =>
            LET fs == FormatFindings(ret.ps, PathOf(w))
            IN IF Src(w).src = Src(w).fmt.out
               THEN fs = <<>>
               ELSE /\ Len(fs) = 1
                    /\ fs[1].Fixable
                    /\ fs[1].Line = 0
                    /\ fs[1].SHA1 = ShaOf(w)

\* C9 witness: Check returned for a tree with a file that needed formatting
\* and a file with other findings that did not.
C9_Witness ==
    /\ pc = "done"
    /\ \E w \in Tasks : FetchedOK(w) /\ Src(w) = Untidy
    /\ \E w \in Tasks : FetchedOK(w) /\ Src(w) = Lintful
                          /\ FileFindings(ret.ps, PathOf(w)) # <<>>

\* C10: every finding appended, waiting to be appended or returned that is
\* Fixable is of type gofmt and carries the path and the blob id of one tree
\* entry; findings of any other origin are not Fixable.
C10_FixableCarriesIdentity ==
    \A p \in Range(list) \cup Range(AllPending) \cup Range(ret.ps) :
        /\ p.Fixable =>
             /\ p.Type = Gofmt
             /\ p.File # <<>>
             /\ p.SHA1 # ""
             /\ \E w \in Tasks : p.File = PathOf(w) /\ p.SHA1 = ShaOf(w)
        /\ p.Type # Gofmt => ~p.Fixable

\* C10 witness: Check returned a Fixable finding together with findings from
\* syntax errors, the linter and vet.
C10_Witness ==
    /\ pc = "done"
    /\ \E p \in Range(ret.ps) : p.Fixable
    /\ \E p \in Range(ret.ps) : p.Text = TextSyn
    /\ \E p \in Range(ret.ps) : p.Text = TextDoc
    /\ \E p \in Range(ret.ps) : p.Text = TextVet

(* ============================ session store ============================ *)
(* cmd/fixhubd/datastore.go: the in-memory store of FixData sessions        *)
(* between a fix link and the authorization callback.                       *)

(* ------------------------------ bounds -------------------------------- *)
\* rng.Int31() draws one of MaxDraw + 1 values.
MaxDraw == 1
\* Largest number of steps in which the model follows cleanup's loop.
MaxNaps == 2

(* ------------------------- program constants -------------------------- *)
\* 2 * time.Minute and 2 * time.Second, in seconds.
ttlSeconds == 120
sweepSeconds == 2

(* -------------------------------- keys -------------------------------- *)
\* The values rng.Int31() returns in the model.
Int31 == { 26 * i : i \in 0..MaxDraw }

HexDigit(d) == IF d < 10 THEN 48 + d ELSE 87 + d

\* fmt.Sprintf("%x", n): the lower-case hexadecimal digits of n.
RECURSIVE Hex(_)
Hex(n) == IF n < 16 THEN <<HexDigit(n)>> ELSE Append(Hex(n \div 16), HexDigit(n % 16))

\* The state parameter of a request: a key Put may return, or "z", which it
\* never returns.
StateParams == { Hex(n) : n \in Int31 } \cup { <<122>> }

(* ------------------------------ sessions ------------------------------ *)
FixData(owner, repo, problems) == [Owner |-> owner, Repo |-> repo, Problems |-> problems]

\* FixData{}
NoFixData == FixData("", "", <<>>)

\* The fixable Problem of an upstream file, as Check reports it.
FixableProblem(i) ==
    Problem(Gofmt, Upstream[i].Path[1], Upstream[i].SHA[1], 0, GofmtText, TRUE)

\* The FixData fixLink builds from one finding or from all: the fixable
\* Problems of one repository.
Sessions ==
    { FixData("owner", "repo", ps) :
        ps \in { <<FixableProblem(1)>>, <<FixableProblem(1), FixableProblem(2)>> } }

(* -------------------------------- maps -------------------------------- *)
\* make(map[string]...)
NoMap == [k \in {} |-> k]

\* m[k] = v
With(m, k, v) == [j \in DOMAIN m \cup {k} |-> IF j = k THEN v ELSE m[j]]

\* delete(m, k) for every k of ks
Without(m, ks) == [j \in DOMAIN m \ ks |-> m[j]]

(* ------------------------------ methods ------------------------------- *)
\* A Put that returns a key and stores nothing.
PutIntoNothing(s, key, d) == s

\* Put's s.data[key] = d.
PutInto(s, key, d) == [s EXCEPT !.data = With(s.data, key, d)]

\* Get's lookup of s.data[key] and its two returns.
GetFrom(s, key) ==
    IF key \in DOMAIN s.data
    THEN [d |-> s.data[key], err |-> ""]
    ELSE [d |-> NoFixData, err |-> "no such key"]

\* A Remove that deletes the timeout entry only.
RemoveTimeoutOnly(s, key) == [s EXCEPT !.timeout = Without(s.timeout, {key})]

\* A Remove that empties the session instead of deleting its entry.
RemoveClears(s, key) ==
    [data |-> With(s.data, key, NoFixData), timeout |-> Without(s.timeout, {key})]

\* Remove's two deletes.
RemoveFrom(s, key) ==
    [data |-> Without(s.data, {key}), timeout |-> Without(s.timeout, {key})]

\* The keys an iteration of cleanup deletes at time now (in seconds).
Expired(s, now) == { k \in DOMAIN s.timeout : now - s.timeout[k] > ttlSeconds }

\* The locked part of one iteration of cleanup.
Sweep(s, now) ==
    [data |-> Without(s.data, Expired(s, now)),
     timeout |-> Without(s.timeout, Expired(s, now))]

(* ------------------------------- state -------------------------------- *)
\* The scan is not part of the server's state.
ScanIdle ==
    /\ fp = 0 /\ tree = <<>> /\ truncated = FALSE /\ pc = "idle" /\ vet = "" /\ idx = 1 /\ wg = 0
    /\ sem = 0 /\ mu = 0 /\ list = <<>> /\ task = <<>>
    /\ ret = [ps |-> <<>>, err |-> ""]

\* A call of a store method: op is "Put", "Get", "Remove" or "cleanup"; key
\* is Put's result and the others' argument; d and err are Get's results
\* and d is Put's argument.
Call(op, key, d, err) == [op |-> op, key |-> key, d |-> d, err |-> err]

NoStore == [data |-> NoMap, timeout |-> NoMap]

\* Everything but the store, at rest.
othersVars == <<fp, tree, truncated, pc, vet, idx, wg, sem, mu, list, task, ret, plan, run, github>>

StoreInit ==
    /\ ScanIdle
    /\ plan = <<>> /\ run = <<>> /\ github = <<>>
    /\ datastore = NoStore
    /\ clock = [now |-> 0, naps |-> 0]
    /\ born = NoMap
    /\ last = Call("none", <<>>, NoFixData, "")

storeVars == <<datastore, clock, born, last>>

\* datastore.Put(d), under s.mu. born notes when the key was handed out.
Put(d) ==
    /\ \E n \in Int31 :
         LET key == Hex(n)
         IN /\ datastore' = PutInto(datastore, key, d)
            /\ born' = With(born, key, [at |-> clock.now, removed |-> FALSE])
            /\ last' = Call("Put", key, d, "")
    /\ UNCHANGED <<clock, othersVars>>

\* datastore.Get(key), under s.mu.
Get(key) ==
    /\ last' = Call("Get", key, GetFrom(datastore, key).d, GetFrom(datastore, key).err)
    /\ UNCHANGED <<datastore, clock, born, othersVars>>

\* datastore.Remove(key), under s.mu.
Remove(key) ==
    /\ datastore' = RemoveFrom(datastore, key)
    /\ born' = IF key \in DOMAIN born THEN [born EXCEPT ![key].removed = TRUE] ELSE born
    /\ last' = Call("Remove", key, NoFixData, "")
    /\ UNCHANGED <<clock, othersVars>>

\* n iterations of cleanup's loop with no other call between them: n sleeps
\* of sweepSeconds, each followed by the sweep. The sweeps delete what the
\* last of them alone deletes, for an entry only grows older.
cleanup ==
    /\ clock.naps < MaxNaps
    /\ \E n \in {1, ttlSeconds \div sweepSeconds + 1} :
         LET now == clock.now + n * sweepSeconds
         IN /\ clock' = [now |-> now, naps |-> clock.naps + 1]
            /\ datastore' = Sweep(datastore, now)
            /\ last' = Call("cleanup", <<>>, NoFixData, "")
    /\ UNCHANGED <<born, othersVars>>

StoreNext ==
    \/ \E d \in Sessions : Put(d)
    \/ \E key \in StateParams : Get(key)
    \/ \E key \in StateParams : Remove(key)
    \/ cleanup

StoreSpec == StoreInit /\ [][StoreNext]_vars

(* --------------------------- claims: the store ------------------------- *)
\* Put has handed the key out and no Remove of it was called since.
Issued(key) == key \in DOMAIN born /\ ~born[key].removed

\* Seconds since the latest Put that returned the key.
Age(key) == clock.now - born[key].at

\* C11: a Get made right after a Put, with the key that Put returned, returns
\* without error a session equal to the one Put was given, whatever other
\* keys are live in the store.
C11_PutThenGet ==
    last.op = "Put" => GetFrom(datastore, last.key) = [d |-> last.d, err |-> ""]

\* A Put of a session with findings into a store that holds another key.
C11_Witness ==
    /\ last.op = "Put"
    /\ last.d.Problems # <<>>
    /\ DOMAIN datastore.data \ {last.key} # {}

\* C12: a Get of a key that Remove was called with, and that no later Put
\* has returned, fails with the not-found outcome and the empty session; so
\* does a Get of a key that Put never returned.
C12_GetFailsUnlessIssued ==
    (last.op = "Get" /\ ~Issued(last.key)) => (last.err # "" /\ last.d = NoFixData)

\* A failed Get of a key that was handed out and removed, other keys being live.
C12_Witness ==
    /\ last.op = "Get"
    /\ last.key \in DOMAIN born
    /\ born[last.key].removed
    /\ last.err # ""
    /\ datastore.data # NoMap

\* C13: no Get returns a session older than the TTL plus one sweep interval:
\* by then a sweep of cleanup has evicted it.
C13_NoStaleSession ==
    (last.op = "Get" /\ last.err = "") => Age(last.key) <= ttlSeconds + sweepSeconds

\* C14: Remove never fails; the key is absent after it; a Remove of an absent
\* key leaves the store as it was, so that a second Remove in succession
\* changes nothing.
C14_RemoveIdempotentTotal ==
    [][ last'.op = "Remove" =>
          /\ last'.err = ""
          /\ last'.key \notin DOMAIN datastore'.data
          /\ (last'.key \notin DOMAIN datastore.data => datastore' = datastore) ]_vars

\* A Remove of a key that was never handed out, from a store that is not empty.
C14_Witness ==
    /\ last.op = "Remove"
    /\ last.key \notin DOMAIN born
    /\ datastore.data # NoMap

\* C15: a Put leaves every session that was live before it as it was.
C15_PutNeverOverwrites ==
    [][ last'.op = "Put" =>
          \A k \in DOMAIN datastore.data : datastore'.data[k] = datastore.data[k] ]_vars

(* ============================== fix planner ============================ *)
(* Client.Fix: from a Problem to the original and the fixed file contents.  *)

\* Fix{}
NoFix == [Orig |-> <<>>, New |-> <<>>]

\* What Client.Fix returns, and the blob ids it called GetBlob with.
FixResult(f, err, fetched) == [f |-> f, err |-> err, fetched |-> fetched]

\* A Fix that fetches the blob before it looks at the Problem.
ClientFixFetchFirst(p, blobErr, c) ==
    IF blobErr THEN FixResult(NoFix, "GetBlob", <<p.SHA1>>)
    ELSE IF ~p.Fixable THEN FixResult(NoFix, "not fixable", <<p.SHA1>>)
    ELSE IF p.Type # Gofmt THEN FixResult(NoFix, "do not know how to fix", <<p.SHA1>>)
    ELSE IF c.fmt.err # "none" THEN FixResult(NoFix, "format.Source", <<p.SHA1>>)
    ELSE FixResult([Orig |-> c.src, New |-> c.fmt.out], "", <<p.SHA1>>)

\* Client.Fix(p), when GetBlob(p.SHA1), if called, fails (blobErr) or
\* returns the content c.
ClientFix(p, blobErr, c) ==
    IF ~p.Fixable THEN FixResult(NoFix, "not fixable", <<>>)
    ELSE IF p.Type # Gofmt THEN FixResult(NoFix, "do not know how to fix", <<>>)
    ELSE IF blobErr THEN FixResult(NoFix, "GetBlob", <<p.SHA1>>)
    ELSE IF c.fmt.err # "none" THEN FixResult(NoFix, "format.Source", <<p.SHA1>>)
    ELSE FixResult([Orig |-> c.src, New |-> c.fmt.out], "", <<p.SHA1>>)

\* The Problems Fix is called with: of either Type, fixable or not, with the
\* blob id of an upstream file or none.
FixInputs ==
    { Problem(type, Upstream[1].Path[1], sha1, line, text, fixable) :
        type \in {Gofmt, NoType}, sha1 \in {"sha-a", "sha-b", "sha-c", ""},
        line \in {0, 1}, text \in {GofmtText, TextDoc}, fixable \in BOOLEAN }

\* plan.blob is what the remote host answers a GetBlob(p.SHA1) with.
PlanInit ==
    /\ ScanIdle
    /\ datastore = NoStore /\ clock = <<>> /\ born = <<>> /\ last = <<>>
    /\ run = <<>> /\ github = <<>>
    /\ plan \in { [pc |-> "call", p |-> p, blob |-> [err |-> FALSE, src |-> "nil"],
                   res |-> FixResult(NoFix, "", <<>>)] : p \in FixInputs }

\* The call of Client.Fix(plan.p) and its return.
FixCall ==
    /\ plan.pc = "call"
    /\ \E blobErr \in BOOLEAN :
       \E c \in (IF blobErr THEN {"nil"} ELSE BlobContents(plan.p.SHA1)) :
         plan' = [plan EXCEPT !.pc = "returned",
                              !.blob = [err |-> blobErr, src |-> c],
                              !.res = ClientFix(plan.p, blobErr, ContentOf(c))]
    /\ UNCHANGED <<scanVars, datastore, clock, born, last, run, github>>

PlanNext == FixCall

PlanSpec == PlanInit /\ [][PlanNext]_vars

(* ------------------------- claims: the planner ------------------------- *)
\* C18: Fix(p) fails with the not-fixable outcome when p is not Fixable,
\* whatever its Type, and with the unsupported-kind outcome when p is Fixable
\* and its Type is not Gofmt; both return the empty Fix and call GetBlob not
\* once. For a Fixable Gofmt Problem a failing GetBlob gives its error as
\* the outcome, with the empty Fix.
C18_FixRejections ==
    plan.pc = "returned" =>
        /\ ~plan.p.Fixable =>
              plan.res = FixResult(NoFix, "not fixable", <<>>)
        /\ (plan.p.Fixable /\ plan.p.Type # Gofmt) =>
              plan.res = FixResult(NoFix, "do not know how to fix", <<>>)
        /\ (plan.p.Fixable /\ plan.p.Type = Gofmt /\ plan.blob.err) =>
              (plan.res.err = "GetBlob" /\ plan.res.f = NoFix)

\* Fix has rejected a Gofmt Problem that is not Fixable, for which the
\* remote host would have failed the fetch.
C18_Witness ==
    /\ plan.pc = "returned"
    /\ ~plan.p.Fixable
    /\ plan.p.Type = Gofmt
    /\ plan.blob.err
    /\ plan.res.err = "not fixable"

(* ============================= fix workflow ============================ *)
(* cmd/fixhubd/fix.go's handler of the authorization callback, and the      *)
(* Client methods it calls: Branch (loadUser, loadWorkingRepo), Fix and     *)
(* CommitFix.                                                               *)

(* ------------------------- program constants -------------------------- *)
\* 50 * time.Millisecond and 5 * time.Second, in milliseconds.
pollStartMs == 50
pollCapMs == 5000

(* ------------------------------ the world ------------------------------ *)
\* Two authorization callbacks reach the server: the least that can race.
Callbacks == {1, 2}

\* The logins Users.Get may answer with: the repository's owner, a
\* collaborator of it, and a user with no rights to it.
Logins == {"owner", "collab", "guest"}
Collaborators == {"owner", "collab"}

\* What Users.Get("") answers: an error, or a user; login is the *string
\* user.Login (<<>> is nil, also standing for a nil user).
UsersGetOutcomes ==
    {[err |-> TRUE, login |-> <<>>]}
        \cup {[err |-> FALSE, login |-> l] : l \in {<<>>, <<"">>} \cup {<<u>> : u \in Logins}}

\* What CreateFork answers: an error, or a repository; name is its *string Name.
CreateForkOutcomes ==
    {[err |-> TRUE, name |-> <<>>]}
        \cup {[err |-> FALSE, name |-> n] : n \in {<<>>, <<"repo-1">>}}

\* The files at the head of master, with their blob ids.
MasterFiles ==
    [f \in {Upstream[i].Path[1] : i \in {1, 2}} |->
        Upstream[CHOOSE i \in {1, 2} : Upstream[i].Path[1] = f].SHA[1]]

\* The id of the blob UpdateFile creates in place of the blob sha1.
NewBlob(sha1) == "fixed-" \o sha1

\* The content the blob of a fixable Problem holds: one Check reported as
\* needing gofmt.
FixableContents(sha1) ==
    { c \in BlobContents(sha1) :
        ContentOf(c).fmt.err = "none" /\ ContentOf(c).src # ContentOf(c).fmt.out }

(* -------------------------------- Client ------------------------------- *)
\* NewClient(owner, repo, ...): user, workingOwner and workingRepo are "".
Client(owner, repo) ==
    [owner |-> owner, repo |-> repo, user |-> "", workingOwner |-> "", workingRepo |-> ""]

\* A call to the remote host: its arguments, and got, what the host
\* answered ("err" for an error).
Req(call, owner, repo, arg, file, got) ==
    [call |-> call, owner |-> owner, repo |-> repo, arg |-> arg, sha |-> "",
     file |-> file, got |-> got]

\* The call of UpdateFile: opt.Branch, opt.SHA and the path.
Write(owner, repo, branch, sha, file, got) ==
    [call |-> "UpdateFile", owner |-> owner, repo |-> repo, arg |-> branch, sha |-> sha,
     file |-> file, got |-> got]

\* The result of a Client method: the client after it, its error ("" is
\* nil) and the calls it made.
Ret(c, err, calls) == [c |-> c, err |-> err, calls |-> calls]

\* A loadUser that takes an empty login for a user.
loadUserAnyLogin(c, out) ==
    IF out.err THEN Ret(c, "Users.Get", <<Req("Users.Get", "", "", "", <<>>, "err")>>)
    ELSE IF out.login = <<>>
    THEN Ret(c, "no github login info", <<Req("Users.Get", "", "", "", <<>>, "")>>)
    ELSE Ret([c EXCEPT !.user = out.login[1]], "",
             <<Req("Users.Get", "", "", "", <<>>, out.login[1])>>)

\* Client.loadUser, when Users.Get("") answers out.
loadUser(c, out) ==
    IF out.err THEN Ret(c, "Users.Get", <<Req("Users.Get", "", "", "", <<>>, "err")>>)
    ELSE IF out.login = <<>> \/ out.login[1] = ""
    THEN Ret(c, "no github login info", <<Req("Users.Get", "", "", "", <<>>, "")>>)
    ELSE Ret([c EXCEPT !.user = out.login[1]], "",
             <<Req("Users.Get", "", "", "", <<>>, out.login[1])>>)

\* A loadWorkingRepo that works in a fork even for a collaborator.
loadWorkingRepoAlwaysFork(c, collabErr, fork) ==
    IF c.user = c.owner
    THEN Ret([c EXCEPT !.workingOwner = c.owner, !.workingRepo = c.repo], "", <<>>)
    ELSE LET q == <<Req("CreateFork", c.owner, c.repo, "", <<>>,
                        IF fork.err \/ fork.name = <<>> THEN "err" ELSE fork.name[1])>>
         IN IF fork.err THEN Ret(c, "CreateFork", q)
            ELSE IF fork.name = <<>> THEN Ret(c, "fork returned no name", q)
            ELSE LET w == [c EXCEPT !.workingOwner = c.user, !.workingRepo = fork.name[1]]
                 IN Ret(w, "", q)

\* Client.loadWorkingRepo up to its poll loop, when IsCollaborator fails
\* (collabErr) or answers by Collaborators, and CreateFork answers fork.
loadWorkingRepo(c, collabErr, fork) ==
    IF c.user = c.owner
    THEN Ret([c EXCEPT !.workingOwner = c.owner, !.workingRepo = c.repo], "", <<>>)
    ELSE
      LET isCollab == c.user \in Collaborators
          q1 == <<Req("IsCollaborator", c.owner, c.repo, c.user, <<>>,
                      IF collabErr THEN "err" ELSE IF isCollab THEN "true" ELSE "false")>>
          q2 == Append(q1, Req("CreateFork", c.owner, c.repo, "", <<>>,
                               IF fork.err \/ fork.name = <<>> THEN "err" ELSE fork.name[1]))
      IN IF collabErr THEN Ret(c, "IsCollaborator", q1)
         ELSE IF isCollab
         THEN Ret([c EXCEPT !.workingOwner = c.owner, !.workingRepo = c.repo], "", q1)
         ELSE IF fork.err THEN Ret(c, "CreateFork", q2)
         ELSE IF fork.name = <<>> THEN Ret(c, "fork returned no name", q2)
         ELSE LET w == [c EXCEPT !.workingOwner = c.user, !.workingRepo = fork.name[1]]
              IN Ret(w, "", q2)

\* fmt.Sprintf("fixhub-%s", c.user)
BranchName(c) == "fixhub-" \o c.user

\* ref := "heads/" + branch
RefName(c) == "heads/" \o BranchName(c)

\* The branch of the working repository that Branch ensures and CommitFix
\* writes to.
WorkingBranch(c) == <<c.workingOwner, c.workingRepo, BranchName(c)>>

\* A cmpURL of the same-repository form whatever the working target.
CompareURLSameRepo(c) ==
    <<"https://github.com", c.owner, c.repo, "compare", BranchName(c), "?expand=1">>

\* The cmpURL of CommitFix, in its parts.
CompareURL(c) ==
    IF c.workingOwner = c.owner /\ c.workingRepo = c.repo
    THEN <<"https://github.com", c.owner, c.repo, "compare", BranchName(c), "?expand=1">>
    ELSE <<"https://github.com", c.workingOwner, c.workingRepo, "compare",
           c.owner \o ":master..." \o c.workingOwner \o ":fixhub-" \o c.user, "?expand=1">>

\* Client.CommitFix(p, f) on the branches refs, when UpdateFile succeeds (ok).
\* url is cmpURL; refs is the branches after it.
CommitFix(c, p, f, refs, ok) ==
    IF c.user = ""
    THEN [url |-> <<>>, err |-> "no authenticated user", calls |-> <<>>, refs |-> refs]
    ELSE [url |-> CompareURL(c),
          err |-> IF ok THEN "" ELSE "UpdateFile",
          calls |-> <<Write(c.workingOwner, c.workingRepo, BranchName(c), p.SHA1, p.File,
                            IF ok THEN "" ELSE "err")>>,
          refs |-> IF ok THEN [refs EXCEPT ![WorkingBranch(c)][p.File] = NewBlob(p.SHA1)] ELSE refs]

\* An UpdateFile that does not name the blob it replaces.
WritableAnyBlob(c, p, refs) ==
    /\ WorkingBranch(c) \in DOMAIN refs
    /\ p.File \in DOMAIN refs[WorkingBranch(c)]

\* UpdateFile can succeed: the branch exists and the file's blob on it is
\* the one named by SHA.
Writable(c, p, refs) ==
    /\ WorkingBranch(c) \in DOMAIN refs
    /\ p.File \in DOMAIN refs[WorkingBranch(c)]
    /\ refs[WorkingBranch(c)][p.File] = p.SHA1

(* ------------------------------- state -------------------------------- *)
\* The handler's run for a callback. pc is "idle" (no request yet), then the
\* call the run is at: "loadUser", "loadWorkingRepo", "getRef", "createRef",
\* "fix", "commit", "remove"; or "done" or "failed" once it has responded.
\* key is the state parameter, d the session Get returned, c the Client, i the
\* position of the loop in d.Problems, f the Fix of d.Problems[i], urls
\* cmpURLs, calls the remote calls so far but the polls, removes the number
\* of datastore.Remove calls, status the HTTP status of the response, err
\* what the failure was, shown the URLs the response carries. poll is the
\* poll loop of loadWorkingRepo, kept until Branch goes on to GetRef: wait
\* is its variable, naps the number of its sleeps, slept their sum, seen
\* whether the last Repositories.Get succeeded.
NoPoll == [wait |-> 0, naps |-> 0, slept |-> 0, seen |-> FALSE]

IdleRun ==
    [pc |-> "idle", key |-> <<>>, d |-> NoFixData, c |-> Client("", ""), i |-> 1,
     f |-> NoFix, urls |-> <<>>, calls |-> <<>>, removes |-> 0, status |-> 0, err |-> "",
     shown |-> <<>>, poll |-> NoPoll]

\* errf(w, status, ...) without the return after it: the handler goes on
\* to its loop.
FailedWithoutReturn(rn, status, err, calls) ==
    [rn EXCEPT !.pc = "fix", !.status = status, !.err = err, !.calls = rn.calls \o calls]

\* errf(w, status, ...) and the handler's return: the response is the
\* status and the error's text.
Failed(rn, status, err, calls) ==
    [rn EXCEPT !.pc = "failed", !.status = status, !.err = err, !.calls = rn.calls \o calls]

\* The stores the callbacks find: fixLink has Put a session with findings
\* under one key and, for a scan that found nothing fixable, the session
\* with none under another.
StoresAtStart ==
    { PutInto(PutInto(NoStore, Hex(26), FixData("owner", "repo", <<>>)), Hex(0), d) :
        d \in Sessions }

FixInit ==
    /\ ScanIdle
    /\ datastore \in StoresAtStart /\ clock = <<>> /\ born = <<>>
    /\ last = Call("none", <<>>, NoFixData, "")
    /\ plan = <<>>
    /\ run = [r \in Callbacks |-> IdleRun]
    /\ github = [forks |-> {}, refs |-> NoMap]

parkedVars == <<scanVars, clock, born, plan>>

\* The confirm handler: the state parameter, datastore.Get(key) to check the
\* key, and the response, the error or the page with the authorization
\* link; the FixData that Get returns is dropped.
confirm(key) ==
    /\ last' = Call("confirm", key, NoFixData, GetFrom(datastore, key).err)
    /\ UNCHANGED <<datastore, run, github, parkedVars>>

\* The handler up to its call of client.Branch: the state parameter, then
\* datastore.Get(key) and NewClient.
fix(r, key) ==
    /\ run[r].pc = "idle"
    /\ LET g == GetFrom(datastore, key)
       IN run' = [run EXCEPT ![r] =
            IF g.err # ""
            THEN Failed([@ EXCEPT !.key = key], 400, "state", <<>>)
            ELSE [@ EXCEPT !.pc = "loadUser", !.key = key, !.d = g.d,
                           !.c = Client(g.d.Owner, g.d.Repo)]]
    /\ UNCHANGED <<datastore, last, github, parkedVars>>

\* Branch: c.loadUser() and the error return after it.
BranchLoadUser(r) ==
    /\ run[r].pc = "loadUser"
    /\ \E out \in UsersGetOutcomes :
         LET res == loadUser(run[r].c, out)
         IN run' = [run EXCEPT ![r] =
              IF res.err # "" THEN Failed(@, 500, res.err, res.calls)
              ELSE [@ EXCEPT !.pc = "loadWorkingRepo", !.c = res.c,
                             !.calls = @ \o res.calls]]
    /\ UNCHANGED <<datastore, last, github, parkedVars>>

\* Branch: c.loadWorkingRepo() up to its poll loop, and the error return
\* after it. A fork the host has created stays; after CreateFork the run
\* enters the loop with wait := 50 * time.Millisecond.
BranchLoadWorkingRepo(r) ==
    /\ run[r].pc = "loadWorkingRepo"
    /\ \E collabErr \in BOOLEAN, fork \in CreateForkOutcomes :
         LET res == loadWorkingRepo(run[r].c, collabErr, fork)
             forked == { <<q.owner, q.repo, run[r].c.user, q.got>> :
                           q \in { x \in { res.calls[j] : j \in 1..Len(res.calls) } :
                                     x.call = "CreateFork" /\ x.got # "err" } }
         IN /\ run' = [run EXCEPT ![r] =
                 IF res.err # "" THEN Failed(@, 500, res.err, res.calls)
                 ELSE IF forked # {}
                 THEN [@ EXCEPT !.pc = "poll", !.c = res.c, !.calls = @ \o res.calls,
                                !.poll = [NoPoll EXCEPT !.wait = pollStartMs]]
                 ELSE [@ EXCEPT !.pc = "getRef", !.c = res.c, !.calls = @ \o res.calls]]
            /\ github' = [github EXCEPT !.forks = @ \cup forked]
    /\ UNCHANGED <<datastore, last, parkedVars>>

\* A loop with no bound on wait.
PollGoesOnForever(wait) == TRUE

\* for wait < 5*time.Second
PollGoesOn(wait) == wait < pollCapMs

\* One iteration of the poll loop: time.Sleep(wait), Repositories.Get of the
\* working repository, then break and return nil when it succeeded, else
\* wait *= 2.
BranchPoll(r) ==
    /\ run[r].pc = "poll"
    /\ PollGoesOn(run[r].poll.wait)
    /\ \E seen \in BOOLEAN :
         run' = [run EXCEPT ![r].pc = IF seen THEN "getRef" ELSE "poll",
                            ![r].poll = [wait |-> IF seen THEN @.wait ELSE @.wait * 2,
                                         naps |-> @.naps + 1,
                                         slept |-> @.slept + @.wait,
                                         seen |-> seen]]
    /\ UNCHANGED <<datastore, last, github, parkedVars>>

\* The loop's condition fails: loadWorkingRepo returns nil.
BranchPollEnd(r) ==
    /\ run[r].pc = "poll"
    /\ ~PollGoesOn(run[r].poll.wait)
    /\ run' = [run EXCEPT ![r].pc = "getRef"]
    /\ UNCHANGED <<datastore, last, github, parkedVars>>

\* Branch: GetRef of the fixhub branch, which fails when the branch is not
\* there or for a reason of its own (down); when it succeeds Branch returns.
BranchGetRef(r) ==
    /\ run[r].pc = "getRef"
    /\ \E down \in BOOLEAN :
         LET c == run[r].c
             found == ~down /\ WorkingBranch(c) \in DOMAIN github.refs
             q == Req("GetRef", c.workingOwner, c.workingRepo, RefName(c), <<>>,
                      IF found THEN "" ELSE "err")
         IN run' = [run EXCEPT ![r].pc = IF found THEN "fix" ELSE "createRef",
                               ![r].calls = Append(@, q),
                               ![r].poll = NoPoll]
    /\ UNCHANGED <<datastore, last, github, parkedVars>>

\* Branch: GetRef of heads/master and CreateRef of the fixhub branch from
\* it, which fails when the branch is there already or for a reason of its
\* own; Branch returns CreateRef's error.
BranchCreateRef(r) ==
    /\ run[r].pc = "createRef"
    /\ \E masterDown \in BOOLEAN, down \in BOOLEAN :
         LET c == run[r].c
             created == ~down /\ WorkingBranch(c) \notin DOMAIN github.refs
             q1 == Req("GetRef", c.workingOwner, c.workingRepo, "heads/master", <<>>,
                       IF masterDown THEN "err" ELSE "")
             q2 == Req("CreateRef", c.workingOwner, c.workingRepo, RefName(c), <<>>,
                       IF created THEN "" ELSE "err")
         IN IF masterDown
            THEN /\ run' = [run EXCEPT ![r] = Failed(@, 500, "GetRef", <<q1>>)]
                 /\ github' = github
            ELSE IF ~created
            THEN /\ run' = [run EXCEPT ![r] = Failed(@, 500, "CreateRef", <<q1, q2>>)]
                 /\ github' = github
            ELSE /\ run' = [run EXCEPT ![r].pc = "fix", ![r].calls = @ \o <<q1, q2>>]
                 /\ github' = [github EXCEPT
                                 !.refs = With(@, WorkingBranch(c), MasterFiles)]
    /\ UNCHANGED <<datastore, last, parkedVars>>

\* A loop that goes on to CommitFix after a failed Fix.
AfterFixIgnoringError(rn, res, qs) ==
    [rn EXCEPT !.pc = "commit", !.f = res.f, !.calls = @ \o qs]

\* The loop after client.Fix(p) has returned: the error return, or on to
\* CommitFix.
AfterFix(rn, res, qs) ==
    IF res.err # "" THEN Failed(rn, 500, res.err, qs)
    ELSE [rn EXCEPT !.pc = "commit", !.f = res.f, !.calls = @ \o qs]

\* A loop that goes on to the next Problem after a failed CommitFix.
AfterCommitFixIgnoringError(rn, res) ==
    [rn EXCEPT !.pc = "fix", !.i = @ + 1, !.f = NoFix,
               !.urls = Append(@, res.url), !.calls = @ \o res.calls]

\* The loop after client.CommitFix(p, f) has returned: the error return, or
\* the append to cmpURLs and the next Problem.
AfterCommitFix(rn, res) ==
    IF res.err # "" THEN Failed(rn, 500, res.err, res.calls)
    ELSE [rn EXCEPT !.pc = "fix", !.i = @ + 1, !.f = NoFix,
                    !.urls = Append(@, res.url), !.calls = @ \o res.calls]

\* The loop over d.Problems has a Problem left.
LoopGoesOn(rn) == rn.i <= Len(rn.d.Problems)

\* One iteration of the loop, first half: client.Fix(p) and the error
\* return after it.
fixFix(r) ==
    /\ run[r].pc = "fix"
    /\ LoopGoesOn(run[r])
    /\ LET p == run[r].d.Problems[run[r].i]
       IN \E blobErr \in BOOLEAN :
          \E c \in (IF blobErr THEN {"nil"} ELSE FixableContents(p.SHA1)) :
            LET res == ClientFix(p, blobErr, ContentOf(c))
                qs == [j \in 1..Len(res.fetched) |->
                         Req("GetBlob", run[r].c.owner, run[r].c.repo, res.fetched[j], <<>>,
                             IF blobErr THEN "err" ELSE "")]
            IN run' = [run EXCEPT ![r] = AfterFix(@, res, qs)]
    /\ UNCHANGED <<datastore, last, github, parkedVars>>

\* One iteration of the loop, second half: client.CommitFix(p, f), the
\* error return after it, and the append to cmpURLs. UpdateFile fails when
\* the file's blob on the branch is not the one named, or for a reason of
\* its own.
fixCommitFix(r) ==
    /\ run[r].pc = "commit"
    /\ LET p == run[r].d.Problems[run[r].i]
       IN \E down \in BOOLEAN :
            LET res == CommitFix(run[r].c, p, run[r].f, github.refs,
                                 ~down /\ Writable(run[r].c, p, github.refs))
            IN /\ run' = [run EXCEPT ![r] = AfterCommitFix(@, res)]
               /\ github' = [github EXCEPT !.refs = res.refs]
    /\ UNCHANGED <<datastore, last, parkedVars>>

\* After the loop: datastore.Remove(key), then the response, a redirect to
\* the one URL or the page listing cmpURLs.
fixRemove(r) ==
    /\ run[r].pc = "fix"
    /\ ~LoopGoesOn(run[r])
    /\ datastore' = RemoveFrom(datastore, run[r].key)
    /\ run' = [run EXCEPT ![r].pc = "done", ![r].removes = @ + 1,
                          ![r].status = IF Len(run[r].urls) = 1 THEN 303 ELSE 200,
                          ![r].shown = run[r].urls]
    /\ UNCHANGED <<last, github, parkedVars>>

FixNext ==
    \/ \E r \in Callbacks, key \in StateParams : fix(r, key)
    \/ \E r \in Callbacks : BranchLoadUser(r)
    \/ \E r \in Callbacks : BranchLoadWorkingRepo(r)
    \/ \E r \in Callbacks : BranchPoll(r)
    \/ \E r \in Callbacks : BranchPollEnd(r)
    \/ \E r \in Callbacks : BranchGetRef(r)
    \/ \E r \in Callbacks : BranchCreateRef(r)
    \/ \E r \in Callbacks : fixFix(r)
    \/ \E r \in Callbacks : fixCommitFix(r)
    \/ \E r \in Callbacks : fixRemove(r)
    \/ \E key \in StateParams : confirm(key)

FixSpec == FixInit /\ [][FixNext]_vars

(* ------------------------- claims: the workflow ------------------------ *)
\* The calls of one kind a run has made.
CallsOf(r, call) == SelectSeq(run[r].calls, LAMBDA q : q.call = call)

\* The run has made a call that reads or writes a branch or a file.
UsedTarget(r) ==
    \E j \in 1..Len(run[r].calls) :
        run[r].calls[j].call \in {"GetRef", "CreateRef", "UpdateFile"}

\* C16: of the runs of the handler with one state key, at most one consumes
\* the session: no two of them both carry the workflow through to Done.
C16_AtMostOneConsumption ==
    \A r1, r2 \in Callbacks :
        (r1 # r2 /\ run[r1].pc = "done" /\ run[r2].pc = "done")
            => run[r1].key # run[r2].key

\* C17: a run issues datastore.Remove exactly once, as the step that takes
\* it to Done, and not before; right after that step its key is not in the
\* store. This holds for any number of findings in the session.
C17_RemovedOnceAtDone ==
    [][ \A r \in Callbacks :
          /\ run'[r].removes = (IF run'[r].pc = "done" THEN 1 ELSE 0)
          /\ (run[r].pc # "done" /\ run'[r].pc = "done")
                => run'[r].key \notin DOMAIN datastore'.data ]_vars

\* Both callbacks are Done, one for a session of several findings and one
\* for the session of none.
C17_Witness ==
    \E r1, r2 \in Callbacks :
        /\ run[r1].pc = "done" /\ Len(run[r1].d.Problems) > 1
        /\ Len(run[r1].urls) = Len(run[r1].d.Problems)
        /\ run[r2].pc = "done" /\ run[r2].d.Problems = <<>>
        /\ DOMAIN datastore.data = {}

\* C19: a run whose user lookup failed or gave no login has failed having
\* made no other call: no collaborator check, fork, branch read or creation,
\* or file write. And CommitFix on a client with no resolved user fails
\* without a write.
C19_NoCredentialNoCalls ==
    \A r \in Callbacks :
        /\ (\E j \in 1..Len(run[r].calls) :
                run[r].calls[j].call = "Users.Get" /\ run[r].calls[j].got \in {"err", ""})
              => /\ run[r].pc = "failed" /\ run[r].status = 500
                 /\ Len(run[r].calls) = 1
                 /\ run[r].urls = <<>>
        /\ run[r].c.user = ""
              => \A i \in {1, 2} : \A ok \in BOOLEAN :
                   LET res == CommitFix(run[r].c, FixableProblem(i), NoFix, github.refs, ok)
                   IN res.err # "" /\ res.calls = <<>> /\ res.refs = github.refs

\* A run has failed on an empty login while the other has written a file.
C19_Witness ==
    \E r1, r2 \in Callbacks :
        /\ run[r1].pc = "failed" /\ run[r1].err = "no github login info"
        /\ run[r1].calls[1].got = ""
        /\ run[r1].c.user = ""
        /\ Len(CallsOf(r2, "UpdateFile")) > 0

C21_TotalWaitCapped ==
    \A r \in Callbacks : run[r].poll.slept <= 5000

\* C22: the poll loop ends after a bounded number of polls (seven at most):
\* it is left at the first poll that sees the fork, so that no run is in it
\* after such a poll; a run that has made seven polls in vain can leave it,
\* and one that has made fewer can poll again; a run that has been in the
\* loop is in it still or has gone on to the branch step, and has not failed.
C22_PollTerminates ==
    \A r \in Callbacks :
        /\ run[r].poll.naps <= 7
        /\ run[r].pc = "poll" => ~run[r].poll.seen
        /\ (run[r].pc = "poll" /\ run[r].poll.naps = 7) => ENABLED BranchPollEnd(r)
        /\ (run[r].pc = "poll" /\ run[r].poll.naps < 7) => ENABLED BranchPoll(r)
        /\ run[r].poll.naps > 0 => run[r].pc \in {"poll", "getRef"}
        /\ (run[r].pc = "getRef" /\ run[r].poll.naps \in 1..6) => run[r].poll.seen

\* A run has left the loop for the branch step after seven polls that never
\* saw the fork.
C22_Witness ==
    \E r \in Callbacks :
        /\ run[r].pc = "getRef"
        /\ run[r].poll.naps = 7
        /\ ~run[r].poll.seen
        /\ run[r].c.workingRepo = "repo-1"

(* ------------------------- claims: the branch -------------------------- *)
\* C23: when the user's fix branch already exists on the working target at
\* the time Branch looks for it, Branch reuses it: it goes on to the commits
\* and issues no create-reference call.
C23_ExistingBranchReused ==
    [][ \A r \in Callbacks :
          (/\ run[r].pc = "getRef"
           /\ run'[r].pc # "getRef"
           /\ WorkingBranch(run[r].c) \in DOMAIN github.refs)
              => run'[r].pc = "fix" ]_vars

(* ------------------------ claims: the commit loop ---------------------- *)
\* The calls of the loop over d.Problems in a log, in the order made.
LoopCallsIn(calls) == SelectSeq(calls, LAMBDA q : q.call \in {"GetBlob", "UpdateFile"})

\* The UpdateFile calls in a log, in the order made.
WritesIn(calls) == SelectSeq(calls, LAMBDA q : q.call = "UpdateFile")

\* The run has left the loop on the error of one of the loop's calls.
FailedInLoop(r) ==
    /\ run[r].pc = "failed"
    /\ LoopCallsIn(run[r].calls) # <<>>
    /\ LoopCallsIn(run[r].calls)[Len(LoopCallsIn(run[r].calls))].got = "err"

\* C24: within one session the fixes are planned and committed one at a
\* time in the order of the session's findings: the loop's calls alternate
\* between the blob read of Fix and the write of CommitFix, the k-th pair is
\* about the k-th finding, and a call is followed by another only if it
\* returned without error, so the writes are a prefix of the finding order.
C24_CommitsInSessionOrder ==
    \A r \in Callbacks :
        LET qs == LoopCallsIn(run[r].calls)
            ps == run[r].d.Problems
        IN /\ Len(qs) <= 2 * Len(ps)
           /\ \A k \in 1..Len(qs) :
                LET p == ps[(k + 1) \div 2]
                IN /\ qs[k].call = (IF k % 2 = 1 THEN "GetBlob" ELSE "UpdateFile")
                   /\ k % 2 = 1 => qs[k].arg = p.SHA1
                   /\ k % 2 = 0 => (qs[k].file = p.File /\ qs[k].sha = p.SHA1)
                   /\ k < Len(qs) => qs[k].got = ""

\* A run has committed the fixes of both findings of its session.
C24_Witness ==
    \E r \in Callbacks :
        /\ run[r].pc = "done"
        /\ Len(run[r].d.Problems) = 2
        /\ Len(WritesIn(run[r].calls)) = 2

\* C25: every write of CommitFix names the finding's recorded blob
\* (p.SHA1) as the content it replaces in p.File on the user's fix branch
\* of the working target, and when the file's blob on that branch is another
\* one at the time of the write, the write fails, the branch is left as it
\* was and the run ends with the error.
C25_ContentGuard ==
    [][ \A r \in Callbacks :
          LET before == WritesIn(run[r].calls)
              after == WritesIn(run'[r].calls)
          IN Len(after) > Len(before) =>
               LET w == after[Len(after)]
                   p == run[r].d.Problems[run[r].i]
                   b == <<w.owner, w.repo, w.arg>>
                   differs == \/ b \notin DOMAIN github.refs
                              \/ p.File \notin DOMAIN github.refs[b]
                              \/ github.refs[b][p.File] # p.SHA1
               IN /\ w.sha = p.SHA1
                  /\ w.file = p.File
                  /\ w.owner = run[r].c.workingOwner
                  /\ w.repo = run[r].c.workingRepo
                  /\ w.arg = "fixhub-" \o run[r].c.user
                  /\ differs => /\ w.got = "err"
                                /\ github'.refs = github.refs
                                /\ run'[r].pc = "failed"
                                /\ run'[r].err # "" ]_vars

\* A run's write has failed and the file's blob on the branch is not the
\* one the write named: an earlier fix is committed to the branch.
C25_Witness ==
    \E r \in Callbacks :
        /\ FailedInLoop(r)
        /\ WritesIn(run[r].calls) # <<>>
        /\ LET w == WritesIn(run[r].calls)[Len(WritesIn(run[r].calls))]
               b == <<w.owner, w.repo, w.arg>>
           IN /\ w.got = "err"
              /\ b \in DOMAIN github.refs
              /\ github.refs[b][w.file] = NewBlob(w.sha)

\* C26: when a call of the loop fails for the k-th finding, it is the last
\* call of the loop (no read and no write for a later finding), the run has
\* ended at that finding, and the fixes committed for the findings before it
\* are still on the branch.
C26_AbortOnFirstFailure ==
    \A r \in Callbacks :
        LET qs == LoopCallsIn(run[r].calls)
            ps == run[r].d.Problems
        IN \A k \in 1..Len(qs) :
             qs[k].got = "err" =>
                /\ k = Len(qs)
                /\ run[r].pc = "failed"
                /\ run[r].i = (k + 1) \div 2
                /\ Len(WritesIn(run[r].calls)) <= run[r].i
                /\ \A j \in 1..(run[r].i - 1) :
                     github.refs[WorkingBranch(run[r].c)][ps[j].File] = NewBlob(ps[j].SHA1)

\* A run has failed at its second finding after committing the first.
C26_Witness ==
    \E r \in Callbacks :
        /\ FailedInLoop(r)
        /\ run[r].i = 2
        /\ Len(run[r].urls) = 1
        /\ github.refs[WorkingBranch(run[r].c)][run[r].d.Problems[1].File]
             = NewBlob(run[r].d.Problems[1].SHA1)

\* C27: when the loop fails at the k-th finding, the response carries the
\* error and the comparison URLs of the k-1 fixes committed before it.
C27_PartialResultSurfaced ==
    \A r \in Callbacks :
        FailedInLoop(r) =>
            /\ run[r].err # ""
            /\ Len(run[r].shown) = run[r].i - 1
            /\ run[r].shown = run[r].urls

\* C28: a session that has committed its fixes has collected one URL for
\* each finding, and the URLs of fixes to two different files are distinct
\* and name the same branch.
C28_DistinctURLs ==
    \A r \in Callbacks :
        run[r].pc = "done" =>
            /\ Len(run[r].urls) = Len(run[r].d.Problems)
            /\ \A j, k \in 1..Len(run[r].urls) :
                 (j < k /\ run[r].d.Problems[j].File # run[r].d.Problems[k].File)
                    => run[r].urls[j] # run[r].urls[k]

\* C29: the URL of the j-th committed fix has the same-repository form
\* exactly when the write went to the original repository and the fork form
\* otherwise, and the branch it names is the branch of that write.
C29_CompareURLForm ==
    \A r \in Callbacks :
        LET c == run[r].c
            ws == WritesIn(run[r].calls)
        IN /\ Len(run[r].urls) <= Len(ws)
           /\ \A j \in 1..Len(run[r].urls) :
                run[r].urls[j] =
                    IF ws[j].owner = c.owner /\ ws[j].repo = c.repo
                    THEN <<"https://github.com", c.owner, c.repo, "compare",
                           ws[j].arg, "?expand=1">>
                    ELSE <<"https://github.com", ws[j].owner, ws[j].repo, "compare",
                           c.owner \o ":master..." \o ws[j].owner \o ":" \o ws[j].arg,
                           "?expand=1">>

\* A run has collected a URL of the fork form.
C29_Witness ==
    \E r \in Callbacks :
        /\ run[r].urls # <<>>
        /\ run[r].c.workingOwner = "guest"
        /\ run[r].c.workingRepo = "repo-1"
        /\ run[r].c.owner = "owner"

(* ----------------------- claims: the tree listing ---------------------- *)
\* C30: a scan never works on a partial tree listing: when the host cuts
\* the listing short, GetTree fails and Check returns the error.
C30_TreeNeverPartial ==
    truncated => (pc = "failed" /\ ret.err # "")

(* ------------------------ claims: the whole scan ----------------------- *)
\* The scan of the tree a.go, b.go, c.go has returned, every blob was
\* fetched, a.go parses and needs reformatting, b.go is canonical with
\* nothing for lint or vet to report, and c.go does not parse.
ScannedABC ==
    /\ pc = "done"
    /\ tree = <<Upstream[1], Upstream[2], Upstream[4]>>
    /\ \A w \in 1..3 : FetchedOK(w)
    /\ Src(1).fmt.err = "none" /\ Src(1).src # Src(1).fmt.out
    /\ Src(2).fmt.err = "none" /\ Src(2).src = Src(2).fmt.out
    /\ Src(2).lint = <<>> /\ Src(2).vet = <<>>
    /\ Src(3).fmt.err \in {"list", "single"}

\* What the scenario expects of the result: two findings or more, the first
\* one about a.go and fixable, none about b.go, and those about c.go not
\* fixable and each on the line of one of c.go's syntax errors.
ExpectedOfABC ==
    /\ Len(ret.ps) >= 2
    /\ ret.ps[1].File = PathOf(1)
    /\ ret.ps[1].Fixable
    /\ FileFindings(ret.ps, PathOf(2)) = <<>>
    /\ \A p \in Range(FileFindings(ret.ps, PathOf(3))) :
         /\ ~p.Fixable
         /\ \E e \in Range(Src(3).fmt.errs) : p.Line = e.Line

Ending(path, n) ==
    IF Len(path) <= n THEN path ELSE SubSeq(path, Len(path) - n + 1, Len(path))

\* The entries the claim calls eligible: path, content id and size present,
\* a path ending in ".go" but not in ".pb.go", and at most 1 MiB.
ToBeScanned(ent) ==
    /\ ent.Path # <<>> /\ ent.SHA # <<>> /\ ent.Size # <<>>
    /\ Ending(ent.Path[1], 3) = <<46, 103, 111>>
    /\ Ending(ent.Path[1], 6) # <<46, 112, 98, 46, 103, 111>>
    /\ ent.Size[1] <= 1048576

\* C32: a task is spawned for the entries the loop has passed that are
\* eligible and for no other entry; only an eligible entry's blob is ever
\* fetched, and when Check returns every eligible entry's blob was fetched;
\* an entry that is not eligible adds no finding and no error.
C32_Eligibility ==
    \A w \in Tasks :
        /\ (w < idx) => (task[w].pc # "none" <=> ToBeScanned(tree[w]))
        /\ (w >= idx) => task[w].pc = "none"
        /\ task[w].fetched # <<>> => ToBeScanned(tree[w])
        /\ (pc = "done" /\ ToBeScanned(tree[w])) => task[w].fetched # <<>>
        /\ ~ToBeScanned(tree[w]) =>
             /\ tree[w].Path # <<>> => FileFindings(list, tree[w].Path[1]) = <<>>
             /\ pc = "done" => ret.err = ""

\* Check has returned for a tree with a Go file of exactly 1 MiB, a larger
\* one and a generated one: only the first was fetched.
C32_Witness ==
    /\ pc = "done"
    /\ tree = <<Upstream[2], Upstream[3], Upstream[5]>>
    /\ task[1].fetched # <<>>
    /\ task[2].pc = "none" /\ task[3].pc = "none"

(* --------------------------- claims: no vet ---------------------------- *)
\* C33: when no vet binary is found, vetting is skipped for the whole scan:
\* no task calls the checker or writes a scratch file for it, no finding of
\* vet is recorded, and Check returns without error the format, syntax and
\* lint findings of the files.
C33_VetSkippedForWholeScan ==
    vet = "" =>
        /\ \A w \in Tasks : task[w].vetCalls = 0
        /\ pc = "done" => ret.err = ""
        /\ \A w \in Tasks : FetchedOK(w) =>
             \A p \in Range(FileFindings(list, PathOf(w))) :
                IF Src(w).fmt.err # "none"
                THEN p \in Range(FormatErrProblems(PathOf(w), Src(w)))
                ELSE \/ p \in Range(GofmtProblems(PathOf(w), ShaOf(w), Src(w)))
                     \/ p \in Range(LintProblems(PathOf(w), Src(w)))

(* ---------------------- claims: failure before the scan ---------------- *)
\* C34: when ResolveRef or GetTree fails, Check returns no findings and an
\* error whose text names the step, the revision and the cause, and no task
\* was spawned, no blob fetched and nothing recorded.
C34_FailureBeforeScan ==
    pc = "failed" =>
        /\ ret.ps = <<>>
        /\ \E cause \in {"404 Not Found", "connection reset"} :
             \/ ret.err = "resolving \"master\": " \o cause
             \/ ret.err = "fetching tree \"master\" (sha-commit): " \o cause
        /\ \A w \in Tasks : task[w].pc = "none" /\ task[w].fetched = <<>>
        /\ idx = 1 /\ wg = 0 /\ sem = 0 /\ list = <<>>

\* Check has failed at the tree of a repository with three entries.
C34_Witness ==
    /\ pc = "failed"
    /\ Len(tree) = 3
    /\ ret.err = "fetching tree \"master\" (sha-commit): connection reset"

(* --------------------------- claims: the mutex ------------------------- *)
\* The tasks inside addProblem, between problems.Lock() and problems.Unlock().
Holders == { w \in Tasks : task[w].pc = "locked" }

\* C35: at most one task holds the findings mutex; the task that holds it
\* has its fetch behind it, holds no admission slot and waits for none (the
\* slots taken are those of the tasks inside a fetch, and it is not one of
\* them); the list is as the holder read it, and the holder's next step, the
\* append and unlock, is never blocked.
C35_MutexHeldForAppendOnly ==
    /\ Cardinality(Holders) <= 1
    /\ \A w \in Tasks : w \in Holders <=> mu = w
    /\ \A w \in Holders :
         /\ task[w].fetched = <<FALSE>>
         /\ w \notin Fetching
         /\ sem = Cardinality(Fetching)
         /\ task[w].tmp = list
         /\ ENABLED AppendUnlock(w)

\* A task holds the mutex while a second is inside its fetch and a third
\* waits for a slot.
C35_Witness ==
    /\ Holders # {}
    /\ \E v \in Tasks : task[v].pc = "blob"
    /\ \E v \in Tasks : task[v].pc = "sem"

(* ---------------------- claims: the workflow's order ------------------- *)
\* The workflow state of a run: 0 Uninitialized (no user yet), 1
\* UserResolved, 2 TargetResolved (the working target is set; the fork is
\* awaited and the branch looked for), 3 BranchEnsured (Branch has returned,
\* the loop has made no call), 4 Committing, 5 Done, 6 Failed.
Stage(rn) ==
    CASE rn.pc \in {"idle", "loadUser"} -> 0
      [] rn.pc = "loadWorkingRepo" -> 1
      [] rn.pc \in {"poll", "getRef", "createRef"} -> 2
      [] rn.pc = "fix" /\ LoopCallsIn(rn.calls) = <<>> -> 3
      [] rn.pc = "fix" /\ LoopCallsIn(rn.calls) # <<>> -> 4
      [] rn.pc = "commit" -> 4
      [] rn.pc = "done" -> 5
      [] OTHER -> 6

\* The log holds a call of the kind that returned without error.
Succeeded(calls, call) ==
    \E j \in 1..Len(calls) : calls[j].call = call /\ calls[j].got # "err"

\* C36: a run moves from a workflow state to the next one or to Failed and
\* in no other way (a session without findings has no commit to make and
\* goes from BranchEnsured to Done); Done and Failed are final; a write is
\* issued only by a run whose user look-up has succeeded, whose working
\* target is set and whose branch was found or created; and a run that has
\* failed has not removed the session.
C36_WorkflowOrder ==
    [][ \A r \in Callbacks :
          LET a == Stage(run[r])
              b == Stage(run'[r])
          IN /\ \/ b \in {a, a + 1, 6}
                \/ a = 3 /\ b = 5 /\ run[r].d.Problems = <<>>
             /\ a \in {5, 6} => run'[r] = run[r]
             /\ a = 0 => run'[r].c.user = "" \/ b = 1
             /\ b = 6 => run'[r].removes = 0 /\ run'[r].err # ""
             /\ Len(WritesIn(run'[r].calls)) > Len(WritesIn(run[r].calls)) =>
                  /\ a = 4
                  /\ Succeeded(run[r].calls, "Users.Get")
                  /\ run[r].c.user # "" /\ run[r].c.workingOwner # ""
                  /\ run[r].c.workingRepo # ""
                  /\ \/ Succeeded(run[r].calls, "CreateRef")
                     \/ \E j \in 1..Len(run[r].calls) :
                          /\ run[r].calls[j].call = "GetRef"
                          /\ run[r].calls[j].arg = "heads/fixhub-" \o run[r].c.user
                          /\ run[r].calls[j].got = "" ]_vars

\* A run has gone through every state by way of a fork and a new branch.
C36_Witness ==
    \E r \in Callbacks :
        /\ run[r].pc = "done"
        /\ Len(WritesIn(run[r].calls)) = 2
        /\ Succeeded(run[r].calls, "CreateFork")
        /\ Succeeded(run[r].calls, "CreateRef")

(* ------------------------ claims: the scan ends ------------------------ *)
\* The scan under a scheduler and a host that do not stop: as long as some
\* goroutine can take a step or some call of the host is awaited, a step is
\* taken in the end. No step of the scan can be repeated, so this gives
\* every goroutine that can go on its step and every blob fetch its return
\* (with the blob or an error).
Fairness == WF_vars(Next)

LiveSpec == Init /\ [][Next]_vars /\ Fairness

\* C37: with FetchParallelism >= 1, Check returns in the end, and then every
\* task has finished and every admission slot is free again.
C37_ScanEnds ==
    fp >= 1 =>
        <>(/\ pc \in {"done", "failed"}
           /\ sem = 0
           /\ wg = 0
           /\ \A w \in Tasks : task[w].pc \in {"none", "done"})

\* Check has returned with one slot for three eligible files, one of whose
\* fetches failed.
C37_Witness ==
    /\ pc = "done"
    /\ fp = 1
    /\ sem = 0
    /\ Len(tree) = 3
    /\ \A w \in Tasks : task[w].pc = "done"
    /\ \E w \in Tasks : FetchFailed(w)

(* ---------------------- claims: no admission slot ---------------------- *)
\* C38: with FetchParallelism 0 no task ever gets past the gate and no blob
\* is fetched; if the tree holds an eligible file, Check does not return,
\* and once the loop has started the tasks nothing can take a step any
\* more; a tree without an eligible file lets Check return, whatever
\* FetchParallelism is, and the result is empty.
C38_NoSlotNoReturn ==
    /\ fp = 0 =>
         /\ sem = 0
         /\ \A w \in Tasks : task[w].pc \in {"none", "sem"} /\ task[w].fetched = <<>>
    /\ (fp = 0 /\ \E w \in Tasks : ToBeScanned(tree[w])) =>
         /\ pc # "done"
         /\ (pc = "loop" /\ idx > Len(tree)) => ~ENABLED Next
    /\ (\A w \in Tasks : ~ToBeScanned(tree[w])) =>
         /\ (pc = "loop" /\ idx > Len(tree)) => ENABLED WaitSortReturn
         /\ pc = "done" => (ret.ps = <<>> /\ ret.err = "")

\* With FetchParallelism 0 the loop has started a task for each of three
\* eligible files and all of them wait at the gate.
C38_Witness ==
    /\ fp = 0
    /\ Len(tree) = 3
    /\ pc = "loop" /\ idx > Len(tree)
    /\ \A w \in Tasks : task[w].pc = "sem"

(* -------------------- claims: failure and the store -------------------- *)
\* The run has failed: its handler has returned an error, or a call of
\* Branch or of the loop has (the look-up of the fix branch apart, whose
\* error Branch takes as "not there").
HasFailed(rn) ==
    \/ rn.pc = "failed"
    \/ \E j \in 1..Len(rn.calls) :
         /\ rn.calls[j].got = "err"
         /\ ~(rn.calls[j].call = "GetRef" /\ rn.calls[j].arg # "heads/master")

\* C39: a run that fails calls no Remove and its steps leave the store as it
\* is; the store changes only by the Remove of a run that has completed;
\* Get (the handler's first step) and the confirm handler leave the store as
\* it is; and the session a failed run had read is still returned by Get,
\* under the same key and with the same contents, as long as no run has
\* removed it.
C39_FailureLeavesStore ==
    [][ /\ \A r \in Callbacks :
             /\ HasFailed(run'[r]) =>
                  /\ run'[r].removes = 0
                  /\ run'[r] # run[r] => datastore' = datastore
             /\ (run[r].pc = "idle" /\ run'[r].pc # "idle") => datastore' = datastore
             /\ (/\ HasFailed(run'[r])
                 /\ run'[r].d # NoFixData
                 /\ \A q \in Callbacks : run'[q].key = run'[r].key => run'[q].removes = 0)
                    => GetFrom(datastore', run'[r].key) = [d |-> run'[r].d, err |-> ""]
        /\ last' # last => datastore' = datastore
        /\ datastore' # datastore =>
             \E r \in Callbacks :
                /\ run'[r].pc = "done" /\ run[r].pc # "done"
                /\ ~HasFailed(run'[r])
                /\ run'[r].removes = 1 ]_vars

\* A run has failed at its second finding after a commit, and the session
\* is still in the store under its key.
C39_Witness ==
    \E r \in Callbacks :
        /\ run[r].pc = "failed"
        /\ run[r].i = 2
        /\ Len(run[r].urls) = 1
        /\ GetFrom(datastore, run[r].key) = [d |-> run[r].d, err |-> ""]

====
